---------------------------- MODULE Spec2Model ----------------------------
(***************************************************************************)
(* Chronos English History Explorer: the lesson controller (App), the      *)
(* content service with its localStorage cache, and the cache key          *)
(* derivation.                                                             *)
(*                                                                         *)
(* JavaScript strings that the code processes character by character       *)
(* (era ids, queries, topics, cache keys) are sequences of one-character   *)
(* strings.  JavaScript null is the value Null.  JSON values are tagged    *)
(* pairs <<tag, payload>>.                                                 *)
(***************************************************************************)
EXTENDS Integers, Sequences, FiniteSets, TLC

(***************************************************************************)
(* Bounds of the model.                                                    *)
(***************************************************************************)
\* number of service calls made in one behaviour
MaxFetches == 3
\* number of timeline entries (a prefix of TIMELINE_DATA) the user picks from
NumEras == 2

(***************************************************************************)
(* Characters and strings.                                                 *)
(***************************************************************************)
Null == <<"null">>

LowerLetters ==
  <<"a","b","c","d","e","f","g","h","i","j","k","l","m",
    "n","o","p","q","r","s","t","u","v","w","x","y","z">>

UpperLetters ==
  <<"A","B","C","D","E","F","G","H","I","J","K","L","M",
    "N","O","P","Q","R","S","T","U","V","W","X","Y","Z">>

Digits == {"0","1","2","3","4","5","6","7","8","9"}

Range(s) == {s[i] : i \in DOMAIN s}

\* the white space String.prototype.trim removes (the part that occurs here)
WhiteSpace == {" ", "\t", "\n", "\r"}

\* the lower-case letter of each upper-case letter
LowerOf == [i \in DOMAIN UpperLetters |-> LowerLetters[i]]

UpperIndex == [c \in Range(UpperLetters) |->
                 CHOOSE i \in DOMAIN UpperLetters : UpperLetters[i] = c]

\* String.prototype.toLowerCase on one character
LowerChar(c) == IF c \in DOMAIN UpperIndex THEN LowerOf[UpperIndex[c]] ELSE c

toLowerCase(s) == [i \in DOMAIN s |-> LowerChar(s[i])]

RECURSIVE trimStart(_)
trimStart(s) ==
  IF s # <<>> /\ Head(s) \in WhiteSpace THEN trimStart(Tail(s)) ELSE s

RECURSIVE trimEnd(_)
trimEnd(s) ==
  IF s # <<>> /\ s[Len(s)] \in WhiteSpace
  THEN trimEnd(SubSeq(s, 1, Len(s) - 1))
  ELSE s

\* String.prototype.trim
trim(s) == trimEnd(trimStart(s))

\* a JavaScript string used as a condition
TruthyString(s) == s # Null /\ s # <<>>

(***************************************************************************)
(* types.ts and constants.ts: the eight era ids, in timeline order.        *)
(***************************************************************************)
INTRO == <<"i","n","t","r","o">>
PROTO == <<"p","r","o","t","o">>
OLD_ENGLISH == <<"o","l","d","_","e","n","g","l","i","s","h">>
MIDDLE_ENGLISH == <<"m","i","d","d","l","e","_","e","n","g","l","i","s","h">>
EARLY_MODERN == <<"e","a","r","l","y","_","m","o","d","e","r","n">>
RESTORATION == <<"r","e","s","t","o","r","a","t","i","o","n">>
LATE_MODERN == <<"l","a","t","e","_","m","o","d","e","r","n">>
GLOBAL == <<"g","l","o","b","a","l">>

\* the id column of TIMELINE_DATA
TIMELINE_DATA ==
  <<INTRO, PROTO, OLD_ENGLISH, MIDDLE_ENGLISH,
    EARLY_MODERN, RESTORATION, LATE_MODERN, GLOBAL>>

EraId == Range(TIMELINE_DATA)

(***************************************************************************)
(* geminiService.ts: cache keys.                                           *)
(***************************************************************************)
CACHE_PREFIX == <<"c","h","r","o","n","o","s","_","c","a","c","h","e","_","v","1","_">>

ERA == <<"e","r","a">>
SEARCH == <<"s","e","a","r","c","h">>
IMAGE == <<"i","m","a","g","e">>

\* the characters the class [^a-zA-Z0-9-_] does not match
KeyChars == Range(LowerLetters) \cup Range(UpperLetters) \cup Digits \cup {"-", "_"}

\* String.prototype.replace(/[^a-zA-Z0-9-_]/g, '')
sanitize(id) == SelectSeq(id, LAMBDA c : c \in KeyChars)

\* getCacheKey had it left the type out of the key
getCacheKeyNoType(type, id) == CACHE_PREFIX \o sanitize(id)

\* getCacheKey had it left the id out of the key
getCacheKeyNoId(type, id) == CACHE_PREFIX \o type \o <<"_">>

getCacheKey(type, id) == CACHE_PREFIX \o type \o <<"_">> \o sanitize(id)

\* the search key had the query not been lower-cased
searchCacheKeyNoLower(query) == getCacheKey(SEARCH, trim(query))

\* the key generateSearchArticle composes: trim, lower-case, then getCacheKey
searchCacheKey(query) == getCacheKey(SEARCH, toLowerCase(trim(query)))

\* the key generateHistoryArticle composes
eraCacheKey(eraId) == getCacheKey(ERA, eraId)

\* the number of leading characters of the prompt that enter the image key
PromptKeyLength == 50

\* String.prototype.substring(0, n)
substring(s, n) == SubSeq(s, 1, IF Len(s) < n THEN Len(s) ELSE n)

\* String.prototype.replace(/\s+/g, '_'): each run of white space becomes "_"
RECURSIVE replaceSpace(_)
replaceSpace(s) ==
  IF s = <<>> THEN <<>>
  ELSE IF Head(s) \in WhiteSpace
  THEN <<"_">> \o replaceSpace(trimStart(Tail(s)))
  ELSE <<Head(s)>> \o replaceSpace(Tail(s))

DigitSeq == <<"0","1","2","3","4","5","6","7","8","9">>

\* a length as the decimal string that + builds from it
RECURSIVE ToDecimal(_)
ToDecimal(n) ==
  IF n < 10 THEN <<DigitSeq[n + 1]>>
  ELSE ToDecimal(n \div 10) \o <<DigitSeq[(n % 10) + 1]>>

\* generateHistoricalIllustration: promptKey
\* promptKey had it left the length out
promptKeyNoLength(prompt) == replaceSpace(substring(prompt, PromptKeyLength))

promptKey(prompt) ==
  replaceSpace(substring(prompt, PromptKeyLength)) \o <<"_">> \o ToDecimal(Len(prompt))

\* the key generateHistoricalIllustration composes
imageCacheKey(prompt) == getCacheKey(IMAGE, promptKey(prompt))

\* ArticleRenderer.tsx: the text around content.imagePrompt in fullPrompt
PromptHead ==
  <<"A"," ","h","i","g","h"," ","q","u","a","l","i","t","y",","," ","m","u",
    "s","e","u","m","-","s","t","y","l","e"," ","h","i","s","t","o","r","i",
    "c","a","l"," ","p","a","i","n","t","i","n","g"," ","o","r"," ","a","r",
    "t","i","f","a","c","t"," ","d","e","p","i","c","t","i","n","g",":"," ">>

PromptTail ==
  <<"."," ","U","s","e"," ","w","a","r","m",","," ","a","c","a","d","e","m",
    "i","c"," ","l","i","g","h","t","i","n","g",".">>

fullPrompt(imagePrompt) == PromptHead \o imagePrompt \o PromptTail

\* the text before part.inlineData.data in the url
DataUrlHead ==
  <<"d","a","t","a",":","i","m","a","g","e","/","p","n","g",";","b","a","s",
    "e","6","4",",">>

(***************************************************************************)
(* JSON.  A value is <<"null">>, <<"bool", b>>, <<"str", chars>>,          *)
(* <<"arr", <<v1, ..>>>> or <<"obj", << <<key, v>>, .. >>>> (members in    *)
(* insertion order).  A text is a sequence of tokens; the empty sequence   *)
(* is the empty string.                                                    *)
(***************************************************************************)
JBool(b) == <<"bool", b>>
JStr(s) == <<"str", s>>
JArr(a) == <<"arr", a>>
JObj(m) == <<"obj", m>>

\* a value used as a JavaScript condition: null, false and "" are falsy
Truthy(v) ==
  /\ v # Null
  /\ ~(v[1] = "bool" /\ ~v[2])
  /\ ~(v[1] = "str" /\ v[2] = <<>>)

RECURSIVE Flatten(_)
Flatten(ss) == IF ss = <<>> THEN <<>> ELSE Head(ss) \o Flatten(Tail(ss))

\* the texts of a list, separated by commas
Join(ts) ==
  Flatten([i \in DOMAIN ts |-> IF i = 1 THEN ts[i] ELSE << <<",">> >> \o ts[i]])

\* JSON.stringify, computed
RECURSIVE Stringify(_)
Stringify(v) ==
  CASE v[1] = "null" -> << <<"null">> >>
    [] v[1] = "bool" -> << <<IF v[2] THEN "true" ELSE "false">> >>
    [] v[1] = "str" -> << <<"s", v[2]>> >>
    [] v[1] = "arr" ->
         << <<"[">> >> \o Join([i \in DOMAIN v[2] |-> Stringify(v[2][i])])
                      \o << <<"]">> >>
    [] v[1] = "obj" ->
         << <<"{">> >>
           \o Join([i \in DOMAIN v[2] |->
                      << <<"k", v[2][i][1]>>, <<":">> >> \o Stringify(v[2][i][2])])
           \o << <<"}">> >>

\* the result of a parse step: a value and the index after it, or a failure
Parsed(v, next) == [ok |-> TRUE, v |-> v, next |-> next]
SyntaxError == [ok |-> FALSE, v |-> Null, next |-> 0]

TokIs(t, i, k) == i <= Len(t) /\ t[i][1] = k

RECURSIVE ParseValue(_, _), ParseElements(_, _, _), ParseMembers(_, _, _)
ParseValue(t, i) ==
  CASE TokIs(t, i, "null") -> Parsed(Null, i + 1)
    [] TokIs(t, i, "true") -> Parsed(JBool(TRUE), i + 1)
    [] TokIs(t, i, "false") -> Parsed(JBool(FALSE), i + 1)
    [] TokIs(t, i, "s") -> Parsed(JStr(t[i][2]), i + 1)
    [] TokIs(t, i, "[") ->
         IF TokIs(t, i + 1, "]") THEN Parsed(JArr(<<>>), i + 2)
         ELSE ParseElements(t, i + 1, <<>>)
    [] TokIs(t, i, "{") ->
         IF TokIs(t, i + 1, "}") THEN Parsed(JObj(<<>>), i + 2)
         ELSE ParseMembers(t, i + 1, <<>>)
    [] OTHER -> SyntaxError

ParseElements(t, i, acc) ==
  LET r == ParseValue(t, i) IN
  IF ~r.ok THEN SyntaxError
  ELSE IF TokIs(t, r.next, ",") THEN ParseElements(t, r.next + 1, Append(acc, r.v))
  ELSE IF TokIs(t, r.next, "]") THEN Parsed(JArr(Append(acc, r.v)), r.next + 1)
  ELSE SyntaxError

ParseMembers(t, i, acc) ==
  IF ~(TokIs(t, i, "k") /\ TokIs(t, i + 1, ":")) THEN SyntaxError
  ELSE LET r == ParseValue(t, i + 2) IN
       IF ~r.ok THEN SyntaxError
       ELSE LET m == Append(acc, <<t[i][2], r.v>>) IN
            IF TokIs(t, r.next, ",") THEN ParseMembers(t, r.next + 1, m)
            ELSE IF TokIs(t, r.next, "}") THEN Parsed(JObj(m), r.next + 1)
            ELSE SyntaxError

\* JSON.parse, computed: [ok |-> FALSE] stands for the SyntaxError it throws
Parse(text) ==
  LET r == ParseValue(text, 1) IN
  IF r.ok /\ r.next = Len(text) + 1 THEN r ELSE SyntaxError

\* obj[key] for a parsed value: Null stands for undefined as well
HasField(v, key) ==
  /\ v # Null
  /\ v[1] = "obj"
  /\ \E i \in DOMAIN v[2] : v[2][i][1] = key

Field(v, key) ==
  IF HasField(v, key)
  THEN v[2][CHOOSE i \in DOMAIN v[2] : v[2][i][1] = key][2]
  ELSE Null

(***************************************************************************)
(* What the AI service may answer.  A Lesson carries title, sections,      *)
(* relatedTopics (optional) and imagePrompt; the other text fields of      *)
(* HistoryContent travel the same way and are left out.                    *)
(***************************************************************************)
Section == JObj(<< <<"heading", JStr(<<"h">>)>>, <<"body", JStr(<<"b">>)>> >>)

Topic(t) == JObj(<< <<"topic", JStr(t)>>, <<"reason", JStr(<<"r">>)>> >>)

\* a lesson whose related topics are "a b" and the empty string
Lesson1 ==
  JObj(<< <<"title", JStr(<<"T","1">>)>>,
          <<"sections", JArr(<<Section>>)>>,
          <<"relatedTopics", JArr(<<Topic(<<"a"," ","b">>), Topic(<<>>)>>)>>,
          <<"imagePrompt", JStr(<<"p","1">>)>> >>)

\* a lesson without relatedTopics
Lesson2 ==
  JObj(<< <<"title", JStr(<<"T","2">>)>>,
          <<"sections", JArr(<<Section, Section>>)>>,
          <<"imagePrompt", JStr(<<"p","2">>)>> >>)

\* an object that is no Lesson: sections and imagePrompt are missing
Partial == JObj(<< <<"title", JStr(<<"T","3">>)>> >>)

\* text that JSON.parse rejects
Malformed == << <<"{">>, <<"k", "title">> >>

ResponseTexts ==
  { <<>>, Malformed, Stringify(JBool(FALSE)), Stringify(Partial),
    Stringify(Lesson1), Stringify(Lesson2) }

\* the live call settles: it rejects with an Error, or resolves with response.text
LiveResults ==
  {[rejected |-> TRUE, message |-> "Failed to fetch", text |-> <<>>]}
    \cup {[rejected |-> FALSE, message |-> "", text |-> t] : t \in ResponseTexts}

\* the ways a live call settles while the App awaits it
AppLiveResults ==
  {r \in LiveResults :
     r.rejected \/ r.text \in {Stringify(Lesson1), Stringify(Lesson2)}}

\* JSON.parse and JSON.stringify, tabulated once over the texts and values
\* the responses give rise to and computed for any other argument
ParseTable == [t \in ResponseTexts |-> Parse(t)]

JSONparse(text) ==
  IF text \in DOMAIN ParseTable THEN ParseTable[text] ELSE Parse(text)

ParsedValues == {ParseTable[t].v : t \in {x \in ResponseTexts : ParseTable[x].ok}}

StringifyTable == [v \in ParsedValues |-> Stringify(v)]

JSONstringify(v) ==
  IF v \in DOMAIN StringifyTable THEN StringifyTable[v] ELSE Stringify(v)

\* the search terms typed into the sidebar
SearchTerms == { <<"a","b">>, <<" ","A","b"," ">>, <<" ">> }

\* the queries the service is called with
Queries == { <<"a","b">>, <<" ","A","b"," ">>, <<"a"," ","b">> }

\* the prompts generateHistoricalIllustration is called with: the prompts of
\* the two lessons, a longer one, and two short ones that differ in white space
Prompts ==
  { fullPrompt(<<"p","1">>), fullPrompt(<<"p","2">>), fullPrompt(<<"p","1","0">>),
    <<"a"," ","b">>, <<"a","\t"," ","b">> }

\* a part of the image response: inlineData.data, or Null for a part without
\* inlineData
TextPart == [inlineData |-> Null]
InlinePart(data) == [inlineData |-> data]

\* the image call settles: it rejects, or resolves with the parts of the first
\* candidate
ImageLiveResults ==
  {[rejected |-> TRUE, message |-> "Failed to fetch", parts |-> <<>>]}
    \cup {[rejected |-> FALSE, message |-> "", parts |-> ps] :
            ps \in { <<TextPart>>, <<TextPart, InlinePart(<<"A","A">>)>>,
                     <<InlinePart(<<"B","B">>), InlinePart(<<"A","A">>)>> }}

\* the queries of the calls made over a store left by an earlier visit; one
\* spells an era id, one the promptKey of the prompt "a b"
CacheQueries == { <<"a","b">>, INTRO, <<"a","_","b","_","3">> }

\* number of calls made over a store left by an earlier visit
MaxCalls == 2

\* the related topics of a lesson that the model can click
MaxTopics == 2

\* the entries of the timeline the user picks from
PickedEras == {TIMELINE_DATA[i] : i \in 1..NumEras}

IsLesson(v) == HasField(v, "sections") /\ HasField(v, "imagePrompt")

(***************************************************************************)
(* ArticleRenderer.tsx: renderRichText.  A span is <<kind, text>> with     *)
(* kind "ref" for the glossary button, "date" for the date marker and      *)
(* "plain" for the other span elements; the nested arrays that the two     *)
(* maps return are given in document order.                                *)
(***************************************************************************)
\* the characters \w matches
WordChars == Range(LowerLetters) \cup Range(UpperLetters) \cup Digits \cup {"_"}

\* the line terminators, which . does not match (the part that occurs here)
LineTerminators == {"\n", "\r"}

\* s[i], or "" beyond the ends of s
At(s, i) == IF i \in DOMAIN s THEN s[i] ELSE ""

\* w occurs in s at index i
StartsAt(s, i, w) ==
  /\ i >= 1
  /\ i + Len(w) - 1 <= Len(s)
  /\ SubSeq(s, i, i + Len(w) - 1) = w

\* \b holds between s[i - 1] and s[i]
Boundary(s, i) == (At(s, i - 1) \in WordChars) # (At(s, i) \in WordChars)

\* the index after the white space that starts at i
skipSpace(s, i) ==
  CHOOSE j \in i..(Len(s) + 1) :
    /\ \A k \in i..(j - 1) : s[k] \in WhiteSpace
    /\ At(s, j) \notin WhiteSpace

\* /\[\[.*?\]\]/ at index q: the index after the match, or 0 for no match
matchTerm(s, q) ==
  IF ~StartsAt(s, q, <<"[", "[">>) THEN 0
  ELSE LET closes == {j \in (q + 2)..(Len(s) - 1) : s[j] = "]" /\ s[j + 1] = "]"} IN
       IF closes = {} THEN 0
       ELSE LET j == CHOOSE j \in closes : \A k \in closes : j <= k IN
            IF \E k \in (q + 2)..(j - 1) : s[k] \in LineTerminators THEN 0
            ELSE j + 2

\* a year by the count of its digits alone: three or four of them
yearEndByDigitCount(s, y) ==
  LET digit(i) == At(s, i) \in Digits IN
  IF digit(y) /\ digit(y + 1) /\ digit(y + 2)
  THEN IF digit(y + 3) THEN y + 4 ELSE y + 3
  ELSE 0

\* (?:4[0-9]{2}|[5-9][0-9]{2}|1[0-9]{3}|20[0-2][0-9]) at index y
yearEnd(s, y) ==
  LET digit(i) == At(s, i) \in Digits IN
  IF At(s, y) \in {"4", "5", "6", "7", "8", "9"}
  THEN IF digit(y + 1) /\ digit(y + 2) THEN y + 3 ELSE 0
  ELSE IF At(s, y) = "1"
  THEN IF digit(y + 1) /\ digit(y + 2) /\ digit(y + 3) THEN y + 4 ELSE 0
  ELSE IF At(s, y) = "2"
  THEN IF At(s, y + 1) = "0" /\ At(s, y + 2) \in {"0", "1", "2"} /\ digit(y + 3)
       THEN y + 4 ELSE 0
  ELSE 0

\* (?:s|\s*BC|\s*AD)?\b at index e: the alternatives in order, then none
suffixEnd(s, e) ==
  LET k == skipSpace(s, e) IN
  IF At(s, e) = "s" /\ Boundary(s, e + 1) THEN e + 1
  ELSE IF StartsAt(s, k, <<"B", "C">>) /\ Boundary(s, k + 2) THEN k + 2
  ELSE IF StartsAt(s, k, <<"A", "D">>) /\ Boundary(s, k + 2) THEN k + 2
  ELSE IF Boundary(s, e) THEN e
  ELSE 0

\* \b(?:AD\s*)?<year>(?:s|\s*BC|\s*AD)?\b at index q
matchYear(s, q) ==
  IF ~Boundary(s, q) THEN 0
  ELSE LET y == IF StartsAt(s, q, <<"A", "D">>) THEN skipSpace(s, q + 2) ELSE q
           e == yearEnd(s, y)
       IN IF e = 0 THEN 0 ELSE suffixEnd(s, e)

\* \b\d{1,2}(?:st|nd|rd|th)\s+[Cc]entury\b at index q
matchCentury(s, q) ==
  IF ~Boundary(s, q) \/ At(s, q) \notin Digits THEN 0
  ELSE LET o == IF At(s, q + 1) \in Digits THEN q + 2 ELSE q + 1
           k == skipSpace(s, o + 2)
       IN IF /\ o + 1 <= Len(s)
             /\ SubSeq(s, o, o + 1) \in {<<"s","t">>, <<"n","d">>, <<"r","d">>, <<"t","h">>}
             /\ k > o + 2
             /\ At(s, k) \in {"C", "c"}
             /\ StartsAt(s, k + 1, <<"e","n","t","u","r","y">>)
             /\ Boundary(s, k + 7)
          THEN k + 7
          ELSE 0

\* dateRegex at index q
matchDate(s, q) == IF matchYear(s, q) # 0 THEN matchYear(s, q) ELSE matchCentury(s, q)

\* text.split(/(\[\[.*?\]\])/g): the piece from p, the search at q
RECURSIVE splitTerms(_, _, _)
splitTerms(s, p, q) ==
  IF q > Len(s) THEN <<SubSeq(s, p, Len(s))>>
  ELSE LET e == matchTerm(s, q) IN
       IF e = 0 THEN splitTerms(s, p, q + 1)
       ELSE <<SubSeq(s, p, q - 1), SubSeq(s, q, e - 1)>> \o splitTerms(s, e, e)

\* part.split(dateRegex)
RECURSIVE splitDates(_, _, _)
splitDates(s, p, q) ==
  IF q > Len(s) THEN <<SubSeq(s, p, Len(s))>>
  ELSE LET e == matchDate(s, q) IN
       IF e = 0 THEN splitDates(s, p, q + 1)
       ELSE <<SubSeq(s, p, q - 1), SubSeq(s, q, e - 1)>> \o splitDates(s, e, e)

\* part.startsWith('[[') && part.endsWith(']]')
isTermPart(part) ==
  /\ StartsAt(part, 1, <<"[", "[">>)
  /\ StartsAt(part, Len(part) - 1, <<"]", "]">>)

\* the spans of one part: the glossary button, or the spans of its sub-parts,
\* those at the odd (zero-based) indexes being date markers
spansOfPart(part) ==
  IF isTermPart(part) THEN << <<"ref", SubSeq(part, 3, Len(part) - 2)>> >>
  ELSE LET subParts == splitDates(part, 1, 1) IN
       [i \in DOMAIN subParts |->
          <<IF i % 2 = 0 THEN "date" ELSE "plain", subParts[i]>>]

renderRichText(text) ==
  LET parts == splitTerms(text, 1, 1) IN
  Flatten([i \in DOMAIN parts |-> spansOfPart(parts[i])])

(***************************************************************************)
(* State.                                                                  *)
(***************************************************************************)
VARIABLES
  apiKey,         \* process.env.API_KEY is set
  mounted,        \* App's first effect has run
  selectedEraId,  \* App state: an era id or Null
  searchQuery,    \* App state: a string or Null
  content,        \* App state: a parsed value or Null
  loading,        \* App state
  error,          \* App state: Null or <<"msg", text>>
  fetches,        \* the service calls App awaits, by issue number
  localStorage,   \* window.localStorage: key -> text
  issued,         \* history: number of service calls App has made
  last,           \* history: the service call the latest step settled
  eraDone,        \* history: per era, what the latest settled call for it wrote
  writer,         \* history: per stored key, the call that wrote the entry
  tokens,         \* the pieces of the text given to renderRichText
  spans,          \* what renderRichText returned, or NotScanned
  imageUrl,       \* ArticleRenderer state
  loadingImage,
  imageError,
  isSpeaking,
  isPaused,
  imageFetches,   \* the illustration calls in flight, with their isMounted
  synth           \* window.speechSynthesis: its queue and its paused flag

vars ==
  <<apiKey, mounted, selectedEraId, searchQuery, content, loading, error,
    fetches, localStorage, issued, last, eraDone, writer, tokens, spans,
    imageUrl, loadingImage, imageError, isSpeaking, isPaused, imageFetches,
    synth>>

viewVars ==
  <<imageUrl, loadingImage, imageError, isSpeaking, isPaused, imageFetches, synth>>

scanVars == <<tokens, spans>>

NotScanned == <<"none">>

ErrorText(m) == <<"msg", m>>

MissingKeyText == "API Key not found in environment."
LoadFailedText == "Failed to load history content. Please try again."

\* last, when the latest step settled no call
NoCall == [settled |-> FALSE]

\* eraDone[e] when the latest settled call for e did not write the cache;
\* <<"wrote", v>> when it returned the live value v and stored it
NotWritten == <<"none">>

(***************************************************************************)
(* geminiService.ts: the cache store.                                      *)
(***************************************************************************)
setItem(store, key, text) ==
  [k \in DOMAIN store \cup {key} |-> IF k = key THEN text ELSE store[k]]

\* saveToCache had a failing setItem left an empty item behind
saveToCacheClobbers(store, key, data, quotaLeft) ==
  setItem(store, key, IF quotaLeft THEN JSONstringify(data) ELSE <<>>)

\* saveToCache had it stored nothing
saveToCacheNever(store, key, data, quotaLeft) == store

\* saveToCache: setItem throws when the quota is used up; the error is swallowed
saveToCache(store, key, data, quotaLeft) ==
  IF quotaLeft THEN setItem(store, key, JSONstringify(data)) ELSE store

\* getFromCache: no item, an empty item or an unparseable item give null
getFromCache(store, key) ==
  IF key \notin DOMAIN store \/ store[key] = <<>> THEN Null
  ELSE LET r == JSONparse(store[key]) IN IF r.ok THEN r.v ELSE Null

(***************************************************************************)
(* ArticleRenderer.tsx: the feedback entry, kept in the same localStorage. *)
(***************************************************************************)
FEEDBACK_KEY ==
  <<"c","h","r","o","n","o","s","_","f","e","e","d","b","a","c","k","_","v","1">>

\* ratings[title] = rating on the members of the ratings object
setMember(members, title, rating) ==
  IF \E i \in DOMAIN members : members[i][1] = title
  THEN [i \in DOMAIN members |->
          IF members[i][1] = title THEN <<title, JStr(rating)>> ELSE members[i]]
  ELSE Append(members, <<title, JStr(rating)>>)

\* handleRate, on the store: read the ratings, set the one of the title, write
handleRate(store, title, rating) ==
  LET ratings == IF FEEDBACK_KEY \in DOMAIN store /\ store[FEEDBACK_KEY] # <<>>
                 THEN JSONparse(store[FEEDBACK_KEY]).v
                 ELSE JObj(<<>>)
  IN setItem(store, FEEDBACK_KEY,
             JSONstringify(JObj(setMember(ratings[2], title, rating))))

\* what localStorage may hold when the page loads: nothing, the feedback of
\* an earlier visit, or also entries under cache keys that do not parse
StoredBefore ==
  LET rated == handleRate(<<>>, "T1", <<"u","p">>)
      damaged == {eraCacheKey(INTRO), searchCacheKey(<<"a","b">>),
                  imageCacheKey(fullPrompt(<<"p","1">>))}
  IN { <<>>, rated,
       [k \in DOMAIN rated \cup damaged |->
          IF k \in damaged THEN Malformed ELSE rated[k]] }

(***************************************************************************)
(* geminiService.ts: generateHistoryArticle and generateSearchArticle.     *)
(* The two bodies are the same text after the key is composed.  The result *)
(* names what the call did: its outcome, the value returned or the message *)
(* of the error thrown, the store it leaves, and ops, the requests it made *)
(* in order: "live" for the request to the AI service, "read" for          *)
(* getFromCache, "write" for saveToCache.                                  *)
(***************************************************************************)
Returned(v, store, liveOk, ops) ==
  [outcome |-> "return", value |-> v, message |-> "", store |-> store,
   liveOk |-> liveOk, ops |-> ops]

Thrown(m, store, ops) ==
  [outcome |-> "throw", value |-> Null, message |-> m, store |-> store,
   liveOk |-> FALSE, ops |-> ops]

\* the requests of the try block when it throws: getClient throws before the
\* request to the AI service is made
tryOps == IF apiKey THEN <<"live">> ELSE <<>>

\* the try block throws: getClient, the rejected call, the empty text, JSON.parse
tryFails(live) ==
  ~apiKey \/ live.rejected \/ live.text = <<>> \/ ~JSONparse(live.text).ok

\* the message of the error the try block throws
tryError(live) ==
  IF ~apiKey THEN "API Key is missing"
  ELSE IF live.rejected THEN live.message
  ELSE IF live.text = <<>> THEN "No content generated"
  ELSE "Unexpected end of JSON input"

\* the catch block had it rethrown at once
cacheFallbackRethrows(store, cacheKey, message) ==
  Thrown(message, store, tryOps)

\* the catch block
cacheFallback(store, cacheKey, message) ==
  LET cached == getFromCache(store, cacheKey) IN
  IF Truthy(cached) THEN Returned(cached, store, FALSE, tryOps \o <<"read">>)
  ELSE Thrown(message, store, tryOps \o <<"read">>)

\* the service had it answered from the cache before asking the AI service
generateArticleCacheFirst(cacheKey, live, store, quotaLeft) ==
  LET cached == getFromCache(store, cacheKey) IN
  IF Truthy(cached) THEN Returned(cached, store, FALSE, <<"read">>)
  ELSE IF tryFails(live) THEN Thrown(tryError(live), store, <<"read">> \o tryOps)
  ELSE LET data == JSONparse(live.text).v IN
       Returned(data, saveToCache(store, cacheKey, data, quotaLeft), TRUE,
                <<"read", "live", "write">>)

\* the service function had it returned the live result without storing it
generateArticleNoWrite(cacheKey, live, store, quotaLeft) ==
  IF tryFails(live) THEN cacheFallback(store, cacheKey, tryError(live))
  ELSE Returned(JSONparse(live.text).v, store, TRUE, <<"live">>)

generateArticle(cacheKey, live, store, quotaLeft) ==
  IF tryFails(live) THEN cacheFallback(store, cacheKey, tryError(live))
  ELSE LET data == JSONparse(live.text).v IN
       Returned(data, saveToCache(store, cacheKey, data, quotaLeft), TRUE,
                <<"live", "write">>)

generateHistoryArticle(eraId, live, store, quotaLeft) ==
  generateArticle(eraCacheKey(eraId), live, store, quotaLeft)

generateSearchArticle(query, live, store, quotaLeft) ==
  generateArticle(searchCacheKey(query), live, store, quotaLeft)

\* the indexes of the parts of an image response that carry inlineData
inlineParts(live) == {i \in DOMAIN live.parts : live.parts[i].inlineData # Null}

\* the try block of generateHistoricalIllustration throws
imageTryFails(live) == ~apiKey \/ live.rejected \/ inlineParts(live) = {}

imageTryError(live) ==
  IF ~apiKey THEN "API Key is missing"
  ELSE IF live.rejected THEN live.message
  ELSE "No image generated"

generateHistoricalIllustration(prompt, live, store, quotaLeft) ==
  LET cacheKey == imageCacheKey(prompt) IN
  IF imageTryFails(live) THEN cacheFallback(store, cacheKey, imageTryError(live))
  ELSE LET first == CHOOSE i \in inlineParts(live) :
                      \A j \in inlineParts(live) : i <= j
           url == JStr(DataUrlHead \o live.parts[first].inlineData)
       IN Returned(url, saveToCache(store, cacheKey, url, quotaLeft), TRUE,
                   <<"live", "write">>)

\* the service function a call names, applied
generate(fn, arg, live, store, quotaLeft) ==
  IF fn = "generateSearchArticle"
  THEN generateSearchArticle(arg, live, store, quotaLeft)
  ELSE IF fn = "generateHistoricalIllustration"
  THEN generateHistoricalIllustration(arg, live, store, quotaLeft)
  ELSE generateHistoryArticle(arg, live, store, quotaLeft)

cacheKeyOf(fn, arg) ==
  IF fn = "generateSearchArticle" THEN searchCacheKey(arg)
  ELSE IF fn = "generateHistoricalIllustration" THEN imageCacheKey(arg)
  ELSE eraCacheKey(arg)

\* what is recorded of call id of fn(arg) when it settles with result r
Settled(id, fn, arg, live, r, quotaLeft) ==
  [settled |-> TRUE, id |-> id, fn |-> fn, arg |-> arg, live |-> live,
   cacheKey |-> cacheKeyOf(fn, arg), liveOk |-> r.liveOk, outcome |-> r.outcome,
   value |-> r.value, persisted |-> r.liveOk /\ quotaLeft, ops |-> r.ops]

\* ArticleRenderer is on screen
ArticleShown == ~loading /\ error = Null /\ Truthy(content)

\* the loading overlay is on screen
OverlayShown == loading /\ Truthy(content)

(***************************************************************************)
(* App.tsx: the effect on [selectedEraId, searchQuery].                    *)
(***************************************************************************)
\* the effect had it no cleanup
cleanupNone(fs) == fs

\* the cleanup of the previous effect: isMounted = false in its closure
cleanup(fs) == [i \in DOMAIN fs |-> [fs[i] EXCEPT !.isMounted = FALSE]]

\* the service call fetchData makes for the selection: search mode when
\* searchQuery is truthy, else the era (selectedEraId || INTRO)
callFor(eraId, query) ==
  IF TruthyString(query)
  THEN [fn |-> "generateSearchArticle", arg |-> query, isMounted |-> TRUE]
  ELSE LET currentEraId == IF TruthyString(eraId) THEN eraId ELSE INTRO
           era == IF currentEraId \in EraId THEN currentEraId ELSE TIMELINE_DATA[1]
       IN [fn |-> "generateHistoryArticle", arg |-> era, isMounted |-> TRUE]

\* fetchData had it not looked at the credential
fetchDataUnchecked(eraId, query) ==
  /\ issued < MaxFetches
  /\ loading' = TRUE
  /\ error' = Null
  /\ issued' = issued + 1
  /\ fetches' = [i \in DOMAIN fetches \cup {issued + 1} |->
                   IF i = issued + 1 THEN callFor(eraId, query)
                   ELSE cleanup(fetches)[i]]

\* fetchData had it not called setLoading(true)
fetchDataNoLoading(eraId, query) ==
  IF ~apiKey
  THEN /\ error' = ErrorText(MissingKeyText)
       /\ fetches' = cleanup(fetches)
       /\ UNCHANGED <<loading, issued>>
  ELSE /\ issued < MaxFetches
       /\ error' = Null
       /\ issued' = issued + 1
       /\ fetches' = [i \in DOMAIN fetches \cup {issued + 1} |->
                        IF i = issued + 1 THEN callFor(eraId, query)
                        ELSE cleanup(fetches)[i]]
       /\ UNCHANGED loading

\* the effect runs for the new dependencies: the cleanup of the effect before
\* it, then fetchData up to its await
fetchData(eraId, query) ==
  IF ~apiKey
  THEN /\ error' = ErrorText(MissingKeyText)
       /\ fetches' = cleanup(fetches)
       /\ UNCHANGED <<loading, issued>>
  ELSE /\ issued < MaxFetches
       /\ loading' = TRUE
       /\ error' = Null
       /\ issued' = issued + 1
       /\ fetches' = [i \in DOMAIN fetches \cup {issued + 1} |->
                        IF i = issued + 1 THEN callFor(eraId, query)
                        ELSE cleanup(fetches)[i]]

(***************************************************************************)
(* ArticleRenderer.tsx: the illustration and the read-aloud controls.      *)
(* speechSynthesis is the browser's: a queue of utterances and a paused    *)
(* flag that cancel() leaves as it is.                                     *)
(***************************************************************************)
\* s without the occurrences of w, left to right
RECURSIVE without(_, _)
without(s, w) ==
  IF s = <<>> THEN <<>>
  ELSE IF StartsAt(s, 1, w) THEN without(SubSeq(s, Len(w) + 1, Len(s)), w)
  ELSE <<Head(s)>> \o without(Tail(s), w)

\* handleSpeak: safeText, of a field of the content
safeText(v) ==
  IF Truthy(v) THEN trim(without(without(v[2], <<"[", "[">>), <<"]", "]">>))
  ELSE <<>>

\* s.body.split('\n')
RECURSIVE splitLines(_, _)
splitLines(s, line) ==
  IF s = <<>> THEN <<line>>
  ELSE IF Head(s) = "\n" THEN <<line>> \o splitLines(Tail(s), <<>>)
  ELSE splitLines(Tail(s), Append(line, Head(s)))

AcademicContext ==
  <<"A","c","a","d","e","m","i","c"," ","C","o","n","t","e","x","t",".">>

\* handleSpeak: the chunks of a section
sectionChunks(sec) ==
  LET body == Field(sec, "body")
      lines == IF Truthy(body) THEN splitLines(body[2], <<>>) ELSE <<>>
  IN <<safeText(Field(sec, "heading"))>>
       \o SelectSeq([i \in DOMAIN lines |-> safeText(JStr(lines[i]))],
                    LAMBDA t : t # <<>>)

\* handleSpeak: validChunks
validChunks(c) ==
  LET secs == IF Truthy(Field(c, "sections")) THEN Field(c, "sections")[2] ELSE <<>>
      chunks == <<safeText(Field(c, "title")), safeText(Field(c, "subtitle")),
                  AcademicContext, safeText(Field(c, "academicContext"))>>
                  \o Flatten([i \in DOMAIN secs |-> sectionChunks(secs[i])])
  IN SelectSeq(chunks, LAMBDA t : t # <<>>)

\* handleSpeak: newUtterances; lesson tells which content an utterance reads
newUtterances(c) ==
  LET texts == validChunks(c) IN
  [i \in DOMAIN texts |-> [text |-> texts[i], lesson |-> Field(c, "title")]]

\* window.speechSynthesis.cancel()
cancel(synthesis) == [synthesis EXCEPT !.queue = <<>>]

\* the effect's cleanup had it left the speech alone
cleanupSpeechNone(synthesis) == synthesis

\* the effect's cleanup: window.speechSynthesis.cancel()
cleanupSpeech(synthesis) == cancel(synthesis)

\* the image area of ArticleRenderer
ImageArea ==
  IF imageUrl # Null /\ imageUrl # <<>> /\ ~imageError THEN "image"
  ELSE IF loadingImage THEN "shimmer"
  ELSE "placeholder"

\* the effect's dependencies
articleDeps(c) == <<Field(c, "title"), Field(c, "imagePrompt")>>

\* the effect's cleanup, and the state of the component gone with it
teardownArticle ==
  /\ synth' = cleanupSpeech(synth)
  /\ isSpeaking' = FALSE
  /\ isPaused' = FALSE
  /\ imageUrl' = Null
  /\ loadingImage' = FALSE
  /\ imageError' = FALSE
  /\ imageFetches' = cleanup(imageFetches)

\* the effect runs for content c (after the cleanup of the one before it, if
\* any): fetchImage up to its await
articleEffect(c, wasShown) ==
  LET ip == Field(c, "imagePrompt")
      sy == IF wasShown THEN cleanupSpeech(synth) ELSE synth
  IN
  /\ synth' = sy
  /\ isSpeaking' = FALSE
  /\ isPaused' = FALSE
  /\ imageUrl' = Null
  /\ imageError' = FALSE
  /\ IF Truthy(ip)
     THEN /\ loadingImage' = TRUE
          /\ imageFetches' = Append(cleanup(imageFetches),
                                    [prompt |-> fullPrompt(ip[2]), isMounted |-> TRUE])
     ELSE /\ loadingImage' = FALSE
          /\ imageFetches' = cleanup(imageFetches)

\* App renders after a change of its state: ArticleRenderer is mounted,
\* unmounted, given other content, or left as it is
renderArticle ==
  IF ArticleShown'
  THEN IF ArticleShown /\ articleDeps(content') = articleDeps(content)
       THEN UNCHANGED viewVars
       ELSE articleEffect(content', ArticleShown)
  ELSE IF ArticleShown THEN teardownArticle
  ELSE UNCHANGED viewVars

\* history: a handler that selects has run; before it the controller had
\* issued so many calls and showed a failure or not
Selected ==
  [settled |-> FALSE, selected |-> TRUE, before |-> issued,
   failed |-> (~loading /\ error # Null), spoke |-> (synth.queue # <<>>)]

\* both setters of a handler land in one render; the effect runs only when a
\* dependency changed
setSelection(eraId, query) ==
  IF eraId = selectedEraId /\ query = searchQuery
  THEN /\ last' = Selected
       /\ UNCHANGED <<apiKey, mounted, selectedEraId, searchQuery, content,
                      loading, error, fetches, localStorage, issued, eraDone,
                      writer>>
       /\ UNCHANGED scanVars
       /\ UNCHANGED viewVars
  ELSE /\ selectedEraId' = eraId
       /\ searchQuery' = query
       /\ fetchData(eraId, query)
       /\ last' = Selected
       /\ UNCHANGED <<apiKey, mounted, content, localStorage, eraDone, writer>>
       /\ UNCHANGED scanVars
       /\ renderArticle

\* the first render: the effect runs for (INTRO, null)
Mount ==
  /\ ~mounted
  /\ mounted' = TRUE
  /\ fetchData(selectedEraId, searchQuery)
  /\ last' = NoCall
  /\ UNCHANGED <<apiKey, selectedEraId, searchQuery, content, localStorage,
                 eraDone, writer>>
  /\ UNCHANGED scanVars
  /\ renderArticle

\* handleSelectEra, from the sidebar or the horizontal timeline
handleSelectEra(id) ==
  /\ mounted
  /\ setSelection(id, Null)

\* handleSearch
handleSearch(query) ==
  /\ mounted
  /\ setSelection(Null, query)

\* Sidebar.tsx handleSearch: the form submits a term that is not blank
SidebarSearch(searchTerm) ==
  /\ trim(searchTerm) # <<>>
  /\ handleSearch(searchTerm)

\* the related topics ArticleRenderer shows as buttons
relatedTopics ==
  LET rt == Field(content, "relatedTopics") IN
  IF ArticleShown /\ rt # Null /\ rt[1] = "arr" THEN rt[2] ELSE <<>>

\* ArticleRenderer.tsx: a related topic is clicked
TopicClick(idx) ==
  /\ idx \in DOMAIN relatedTopics
  /\ handleSearch(Field(relatedTopics[idx], "topic")[2])

\* A call App awaits settles: the rest of the service function runs, then the
\* rest of fetchData (try, catch, finally) in the closure of its effect.
Resolve(id, live, quotaLeft) ==
  /\ id \in DOMAIN fetches
  /\ LET f == fetches[id]
         r == generate(f.fn, f.arg, live, localStorage, quotaLeft)
     IN
     /\ localStorage' = r.store
     /\ fetches' = [i \in DOMAIN fetches \ {id} |-> fetches[i]]
     /\ IF ~f.isMounted THEN UNCHANGED <<content, error, loading>>
        ELSE IF r.outcome = "return"
        THEN content' = r.value /\ loading' = FALSE /\ UNCHANGED error
        ELSE /\ error' = ErrorText(IF r.message # "" THEN r.message
                                   ELSE LoadFailedText)
             /\ loading' = FALSE
             /\ UNCHANGED content
     /\ last' = Settled(id, f.fn, f.arg, live, r, quotaLeft)
  /\ UNCHANGED <<apiKey, mounted, selectedEraId, searchQuery, issued,
                 eraDone, writer>>
  /\ UNCHANGED scanVars
  /\ renderArticle

(***************************************************************************)
(* The service called on its own: one exported function is called and      *)
(* settles.  A call reads and writes the store only after its await, and   *)
(* keeps nothing from the time it was made but its argument, so calls that *)
(* overlap act on the store as the same calls in the order they settle.    *)
(***************************************************************************)
Call(fn, arg, live, quotaLeft) ==
  /\ ~mounted
  /\ issued < MaxFetches
  /\ issued' = issued + 1
  /\ LET r == generate(fn, arg, live, localStorage, quotaLeft) IN
     /\ localStorage' = r.store
     /\ last' = Settled(issued + 1, fn, arg, live, r, quotaLeft)
     /\ eraDone' = IF fn = "generateHistoryArticle"
                   THEN [eraDone EXCEPT ![arg] =
                           IF last'.persisted THEN <<"wrote", r.value>>
                           ELSE NotWritten]
                   ELSE eraDone
     /\ writer' = IF last'.persisted
                  THEN [k \in DOMAIN writer \cup {last'.cacheKey} |->
                          IF k = last'.cacheKey THEN <<fn, arg>> ELSE writer[k]]
                  ELSE writer
  /\ UNCHANGED <<apiKey, mounted, selectedEraId, searchQuery, content, loading,
                 error, fetches>>
  /\ UNCHANGED scanVars
  /\ UNCHANGED viewVars

CallHistoryArticle(eraId, live, quotaLeft) ==
  Call("generateHistoryArticle", eraId, live, quotaLeft)

CallSearchArticle(query, live, quotaLeft) ==
  Call("generateSearchArticle", query, live, quotaLeft)

CallIllustration(prompt, live, quotaLeft) ==
  Call("generateHistoricalIllustration", prompt, live, quotaLeft)

(***************************************************************************)
(* ArticleRenderer.tsx: its handlers, and the events it waits for.         *)
(***************************************************************************)
appVars ==
  <<apiKey, mounted, selectedEraId, searchQuery, content, loading, error,
    fetches, issued, eraDone, writer>>

\* the read-aloud button
handleSpeak ==
  /\ ArticleShown
  /\ IF isPaused
     THEN /\ synth' = [synth EXCEPT !.paused = FALSE]
          /\ isPaused' = FALSE
          /\ isSpeaking' = TRUE
     ELSE IF isSpeaking
     THEN UNCHANGED <<synth, isPaused, isSpeaking>>
     ELSE /\ synth' = [cancel(synth) EXCEPT !.queue = newUtterances(content)]
          /\ isSpeaking' = (newUtterances(content) # <<>>)
          /\ UNCHANGED isPaused
  /\ last' = NoCall
  /\ UNCHANGED appVars
  /\ UNCHANGED <<localStorage, imageUrl, loadingImage, imageError, imageFetches>>
  /\ UNCHANGED scanVars

\* handlePause had it not looked at isSpeaking
handlePauseUnguarded ==
  /\ ArticleShown
  /\ synth' = [synth EXCEPT !.paused = TRUE]
  /\ isPaused' = TRUE
  /\ last' = NoCall
  /\ UNCHANGED appVars
  /\ UNCHANGED <<localStorage, isSpeaking, imageUrl, loadingImage, imageError,
                 imageFetches>>
  /\ UNCHANGED scanVars

\* the pause button
handlePause ==
  /\ ArticleShown
  /\ IF isSpeaking /\ ~isPaused
     THEN /\ synth' = [synth EXCEPT !.paused = TRUE]
          /\ isPaused' = TRUE
     ELSE UNCHANGED <<synth, isPaused>>
  /\ last' = NoCall
  /\ UNCHANGED appVars
  /\ UNCHANGED <<localStorage, isSpeaking, imageUrl, loadingImage, imageError,
                 imageFetches>>
  /\ UNCHANGED scanVars

\* the stop button
handleStop ==
  /\ ArticleShown
  /\ synth' = cancel(synth)
  /\ isSpeaking' = FALSE
  /\ isPaused' = FALSE
  /\ last' = NoCall
  /\ UNCHANGED appVars
  /\ UNCHANGED <<localStorage, imageUrl, loadingImage, imageError, imageFetches>>
  /\ UNCHANGED scanVars

\* the browser has spoken the utterance at the head of the queue; onend of
\* the last one resets the read-aloud state
UtteranceEnd ==
  /\ synth.queue # <<>>
  /\ ~synth.paused
  /\ synth' = [synth EXCEPT !.queue = Tail(synth.queue)]
  /\ IF Len(synth.queue) = 1
     THEN isSpeaking' = FALSE /\ isPaused' = FALSE
     ELSE UNCHANGED <<isSpeaking, isPaused>>
  /\ last' = NoCall
  /\ UNCHANGED appVars
  /\ UNCHANGED <<localStorage, imageUrl, loadingImage, imageError, imageFetches>>
  /\ UNCHANGED scanVars

\* the utterance at the head of the queue fails (not by cancel): its onerror
\* resets the read-aloud state, and the browser goes on with the next one
UtteranceError ==
  /\ synth.queue # <<>>
  /\ synth' = [synth EXCEPT !.queue = Tail(synth.queue)]
  /\ isSpeaking' = FALSE
  /\ isPaused' = FALSE
  /\ last' = NoCall
  /\ UNCHANGED appVars
  /\ UNCHANGED <<localStorage, imageUrl, loadingImage, imageError, imageFetches>>
  /\ UNCHANGED scanVars

\* fetchImage had it no catch: the failure leaves the image state as it is
fetchImageSettledUncaught(r) ==
  IF r.outcome = "return"
  THEN [imageUrl |-> r.value, imageError |-> imageError, loadingImage |-> FALSE]
  ELSE [imageUrl |-> imageUrl, imageError |-> imageError,
        loadingImage |-> loadingImage]

\* fetchImage after its await, isMounted being true: try, catch, finally
fetchImageSettled(r) ==
  IF r.outcome = "return"
  THEN [imageUrl |-> r.value, imageError |-> imageError, loadingImage |-> FALSE]
  ELSE [imageUrl |-> imageUrl, imageError |-> TRUE, loadingImage |-> FALSE]

\* The illustration call ArticleRenderer awaits settles: the rest of the
\* service function runs, then the rest of fetchImage in its effect's closure.
ResolveImage(i, live, quotaLeft) ==
  /\ i \in DOMAIN imageFetches
  /\ LET f == imageFetches[i]
         r == generateHistoricalIllustration(f.prompt, live, localStorage, quotaLeft)
         after == fetchImageSettled(r)
     IN
     /\ localStorage' = r.store
     /\ imageFetches' = [k \in 1..(Len(imageFetches) - 1) |->
                           IF k < i THEN imageFetches[k] ELSE imageFetches[k + 1]]
     /\ IF f.isMounted
        THEN /\ imageUrl' = after.imageUrl
             /\ imageError' = after.imageError
             /\ loadingImage' = after.loadingImage
        ELSE UNCHANGED <<imageUrl, imageError, loadingImage>>
     /\ last' = [view |-> f.isMounted]
                  @@ Settled(i, "generateHistoricalIllustration", f.prompt, live, r,
                             quotaLeft)
  /\ UNCHANGED appVars
  /\ UNCHANGED <<isSpeaking, isPaused, synth>>
  /\ UNCHANGED scanVars

(***************************************************************************)
(* The specifications.                                                     *)
(***************************************************************************)
\* no ArticleRenderer yet, and the browser's speech synthesis idle
ArticleUnmounted ==
  /\ imageUrl = Null
  /\ loadingImage = FALSE
  /\ imageError = FALSE
  /\ isSpeaking = FALSE
  /\ isPaused = FALSE
  /\ imageFetches = <<>>
  /\ synth = [queue |-> <<>>, paused |-> FALSE]

Init ==
  /\ apiKey \in BOOLEAN
  /\ mounted = FALSE
  /\ selectedEraId = INTRO
  /\ searchQuery = Null
  /\ content = Null
  /\ loading = FALSE
  /\ error = Null
  /\ fetches = <<>>
  /\ localStorage = <<>>
  /\ issued = 0
  /\ last = NoCall
  /\ eraDone = [e \in EraId |-> NotWritten]
  /\ writer = <<>>
  /\ tokens = <<>>
  /\ spans = NotScanned
  /\ ArticleUnmounted

\* the application
Next ==
  \/ Mount
  \/ \E id \in PickedEras : handleSelectEra(id)
  \/ \E searchTerm \in SearchTerms : SidebarSearch(searchTerm)
  \/ \E idx \in 1..MaxTopics : TopicClick(idx)
  \/ \E id \in DOMAIN fetches, live \in AppLiveResults, quotaLeft \in BOOLEAN :
       Resolve(id, live, quotaLeft)

Spec == Init /\ [][Next]_vars

\* the lessons fetched while the article view is watched
MaxLessons == 2

\* the application, with React running the first effect and every call the
\* service makes settling at some time; the answers include the JSON text
\* false, which the service takes for a lesson
LiveResponses ==
  AppLiveResults
    \cup {r \in LiveResults : ~r.rejected /\ r.text = Stringify(JBool(FALSE))}

Settle ==
  \E id \in DOMAIN fetches, live \in LiveResponses, quotaLeft \in BOOLEAN :
    Resolve(id, live, quotaLeft)

LiveNext ==
  \/ Mount
  \/ \E id \in PickedEras : handleSelectEra(id)
  \/ \E searchTerm \in SearchTerms : SidebarSearch(searchTerm)
  \/ \E idx \in 1..MaxTopics : TopicClick(idx)
  \/ Settle

LiveSpec == Init /\ [][LiveNext]_vars /\ WF_vars(Mount) /\ WF_vars(Settle)

\* the eras picked while the article view is watched
ViewEras == {INTRO, PROTO}

\* the illustration answers the article view meets
ViewImageResults ==
  {r \in ImageLiveResults : r.rejected \/ Len(r.parts) = 2}

\* the application with the article view's handlers and events
ViewNext ==
  \/ Mount
  \/ \E id \in ViewEras : issued < MaxLessons /\ handleSelectEra(id)
  \/ \E id \in DOMAIN fetches, live \in AppLiveResults : Resolve(id, live, FALSE)
  \/ handleSpeak
  \/ handlePause
  \/ handleStop
  \/ UtteranceEnd
  \/ UtteranceError
  \/ \E i \in DOMAIN imageFetches, live \in ViewImageResults, quotaLeft \in BOOLEAN :
       ResolveImage(i, live, quotaLeft)

ViewSpec == Init /\ [][ViewNext]_vars

\* the service on its own
ServiceNext ==
  \/ \E eraId \in PickedEras, live \in LiveResults, quotaLeft \in BOOLEAN :
       CallHistoryArticle(eraId, live, quotaLeft)
  \/ \E query \in Queries, live \in LiveResults, quotaLeft \in BOOLEAN :
       CallSearchArticle(query, live, quotaLeft)

ServiceSpec == Init /\ [][ServiceNext]_vars

\* the three exported functions over a store that an earlier visit left
CacheInit ==
  /\ apiKey \in BOOLEAN
  /\ mounted = FALSE
  /\ selectedEraId = INTRO
  /\ searchQuery = Null
  /\ content = Null
  /\ loading = FALSE
  /\ error = Null
  /\ fetches = <<>>
  /\ localStorage \in StoredBefore
  /\ issued = 0
  /\ last = NoCall
  /\ eraDone = [e \in EraId |-> NotWritten]
  /\ writer = <<>>
  /\ tokens = <<>>
  /\ spans = NotScanned
  /\ ArticleUnmounted

CacheNext ==
  \/ \E eraId \in PickedEras, live \in AppLiveResults, quotaLeft \in BOOLEAN :
       issued < MaxCalls /\ CallHistoryArticle(eraId, live, quotaLeft)
  \/ \E query \in CacheQueries, live \in AppLiveResults, quotaLeft \in BOOLEAN :
       issued < MaxCalls /\ CallSearchArticle(query, live, quotaLeft)
  \/ \E prompt \in Prompts, live \in ImageLiveResults, quotaLeft \in BOOLEAN :
       issued < MaxCalls /\ CallIllustration(prompt, live, quotaLeft)

CacheSpec == CacheInit /\ [][CacheNext]_vars

\* ArticleRenderer's paragraph: the text is given to renderRichText
Render ==
  /\ spans = NotScanned
  /\ spans' = renderRichText(Flatten(tokens))
  /\ UNCHANGED <<apiKey, mounted, selectedEraId, searchQuery, content, loading,
                 error, fetches, localStorage, issued, last, eraDone, writer,
                 tokens>>
  /\ UNCHANGED viewVars

\* the pieces a paragraph is put together from
Open == <<"[", "[">>

Close == <<"]", "]">>

ScanTokens ==
  { Open, Close, <<"a">>, <<" ">>, <<"\r">>, <<"1", "0", "6", "6">> }

MaxTokens == 4

RECURSIVE SeqsUpTo(_, _)
SeqsUpTo(S, n) ==
  IF n = 0 THEN { <<>> }
  ELSE LET shorter == SeqsUpTo(S, n - 1) IN
       shorter \cup { Append(t, x) : t \in shorter, x \in S }

\* renderRichText over the paragraphs built from ScanTokens
ScanInit ==
  /\ apiKey = TRUE
  /\ mounted = FALSE
  /\ selectedEraId = INTRO
  /\ searchQuery = Null
  /\ content = Null
  /\ loading = FALSE
  /\ error = Null
  /\ fetches = <<>>
  /\ localStorage = <<>>
  /\ issued = 0
  /\ last = NoCall
  /\ eraDone = [e \in EraId |-> NotWritten]
  /\ writer = <<>>
  /\ tokens \in SeqsUpTo(ScanTokens, MaxTokens)
  /\ spans = NotScanned
  /\ ArticleUnmounted

ScanSpec == ScanInit /\ [][Render]_vars

\* the numbers, and what stands before and after them
MaxNumber == 2100

Numbers == 0..MaxNumber \cup {4000, 9999, 10660, 20000, 20290}

Before == { <<>>, <<"x", " ">>, <<"A", "D", " ">> }

Suffixes == { <<>>, <<"s">>, <<"B", "C">>, <<"A", "D">>, <<" ", "B", "C">> }

After == { <<>>, <<" ", "x">>, <<"t", "h", " ", "c", "e", "n", "t", "u", "r", "y">> }

\* renderRichText over the paragraphs that hold one number
DateInit ==
  /\ apiKey = TRUE
  /\ mounted = FALSE
  /\ selectedEraId = INTRO
  /\ searchQuery = Null
  /\ content = Null
  /\ loading = FALSE
  /\ error = Null
  /\ fetches = <<>>
  /\ localStorage = <<>>
  /\ issued = 0
  /\ last = NoCall
  /\ eraDone = [e \in EraId |-> NotWritten]
  /\ writer = <<>>
  /\ \E b \in Before, n \in Numbers, x \in Suffixes, a \in After :
       /\ (a # <<>> /\ a # <<" ", "x">>) => (x = <<>> /\ b = <<>>)
       /\ tokens = <<b, ToDecimal(n), x, a>>
  /\ spans = NotScanned
  /\ ArticleUnmounted

DateSpec == DateInit /\ [][Render]_vars

(***************************************************************************)
(* Properties of the content service (ServiceSpec).                        *)
(***************************************************************************)
\* C1: a call fails only when both the live request and the cache fail: when
\* the live request fails and the store holds an entry under the call's key,
\* the call returns that entry and throws nothing; a call throws only when
\* the live request failed and the store held no entry under the key.
C1_FailsOnlyWhenLiveAndCacheFail ==
  [][ last'.settled =>
        /\ (~last'.liveOk /\ last'.cacheKey \in DOMAIN localStorage)
             => /\ last'.outcome = "return"
                /\ last'.value = JSONparse(localStorage[last'.cacheKey]).v
        /\ last'.outcome = "throw"
             => /\ ~last'.liveOk
                /\ last'.cacheKey \notin DOMAIN localStorage ]_vars

\* C2: when the latest call for an era wrote Lesson L to the cache, a
\* following call for the same era whose live request fails returns exactly L.
C2_FailedRefetchReturnsWrittenLesson ==
  [][ ( /\ last'.settled
        /\ last'.fn = "generateHistoryArticle"
        /\ ~last'.liveOk
        /\ eraDone[last'.arg][1] = "wrote"
        /\ IsLesson(eraDone[last'.arg][2]) )
      => /\ last'.outcome = "return"
         /\ last'.value = eraDone[last'.arg][2] ]_vars

\* a call for an era, made after other entries were written, failed live and
\* returned the Lesson that the era's earlier call wrote
C2_Witness ==
  /\ last.settled
  /\ last.fn = "generateHistoryArticle"
  /\ ~last.liveOk
  /\ last.outcome = "return"
  /\ IsLesson(last.value)
  /\ writer[last.cacheKey] = <<last.fn, last.arg>>
  /\ Cardinality(DOMAIN localStorage) >= 2

\* C7 as stated: after saveToCache(key, v), getFromCache(key) gives a value
\* equal to v.
C7_PutThenGetReturnsValue ==
  (last.settled /\ last.liveOk)
    => getFromCache(localStorage, last.cacheKey) = last.value

\* C7 amended: after a saveToCache(key, v) whose setItem went through,
\* getFromCache(key) gives a value equal to v, for any value shape.
C7_PersistedPutThenGetReturnsValue ==
  (last.settled /\ last.persisted)
    => getFromCache(localStorage, last.cacheKey) = last.value

\* a lesson with nested arrays and objects was written and is read back
C7_Witness ==
  /\ last.settled
  /\ last.persisted
  /\ last.value = Lesson1
  /\ getFromCache(localStorage, last.cacheKey) = Lesson1

\* the characters the specification allows in the identifier of a key
SafeChars ==
  {"_", "-"} \cup Digits
    \cup {LowerLetters[i] : i \in 1..26} \cup {UpperLetters[i] : i \in 1..26}

\* key is the prefix, a namespace, "_" and an identifier of safe characters
SafeKey(key) ==
  \E type \in {ERA, SEARCH, IMAGE} :
    LET p == CACHE_PREFIX \o type \o <<"_">> IN
    /\ Len(key) >= Len(p)
    /\ SubSeq(key, 1, Len(p)) = p
    /\ \A i \in (Len(p) + 1)..Len(key) : key[i] \in SafeChars

\* q without its leading and trailing white space
InnerOf(q) ==
  LET idx == {i \in DOMAIN q : q[i] \notin WhiteSpace} IN
  IF idx = {} THEN <<>>
  ELSE SubSeq(q, CHOOSE i \in idx : \A j \in idx : i <= j,
                 CHOOSE i \in idx : \A j \in idx : i >= j)

SameLetter(a, b) ==
  a = b \/ \E i \in 1..26 : {a, b} = {LowerLetters[i], UpperLetters[i]}

\* two queries differ in letter case and outer white space at most
SameQuery(q1, q2) ==
  LET a == InnerOf(q1)
      b == InnerOf(q2)
  IN Len(a) = Len(b) /\ \A i \in DOMAIN a : SameLetter(a[i], b[i])

\* C8: the identifier of every storage key holds only ASCII letters, digits,
\* "_" and "-", and a search call uses the key under which a query that
\* differs from its own only in case or outer white space was stored.
C8_KeysAreSafeAndNormalised ==
  /\ \A key \in DOMAIN localStorage : SafeKey(key)
  /\ last.settled =>
       /\ SafeKey(last.cacheKey)
       /\ \A key \in DOMAIN writer :
            ( /\ last.fn = "generateSearchArticle"
              /\ writer[key][1] = "generateSearchArticle"
              /\ SameQuery(writer[key][2], last.arg) )
            => key = last.cacheKey

\* the query " Ab " fell back to the entry that the query "ab" wrote
C8_Witness ==
  /\ last.settled
  /\ last.fn = "generateSearchArticle"
  /\ last.arg = <<" ", "A", "b", " ">>
  /\ ~last.liveOk
  /\ last.outcome = "return"
  /\ writer[last.cacheKey] = <<"generateSearchArticle", <<"a", "b">> >>

\* two calls name the same identifier: the same era, or queries that are
\* the same once normalised
SameIdentifier(fn1, arg1, fn2, arg2) ==
  /\ fn1 = fn2
  /\ IF fn1 = "generateSearchArticle" THEN SameQuery(arg1, arg2)
     ELSE arg1 = arg2

\* C9: different identifiers give different keys, so a call that falls back
\* to the cache returns a payload that was written for its own identifier.
C9_FallbackReturnsOwnPayload ==
  (last.settled /\ ~last.liveOk /\ last.outcome = "return")
    => SameIdentifier(writer[last.cacheKey][1], writer[last.cacheKey][2],
                      last.fn, last.arg)

\* C10: every value a call returns after a live success, and every value it
\* caches, carries sections and imagePrompt.
C10_OnlyLessonsReturnedOrCached ==
  /\ (last.settled /\ last.outcome = "return") => IsLesson(last.value)
  /\ \A key \in DOMAIN localStorage : IsLesson(getFromCache(localStorage, key))

(***************************************************************************)
(* Properties of the service over a store left by an earlier visit         *)
(* (CacheSpec).                                                            *)
(***************************************************************************)
\* the image response carries an image payload
HasImage(live) ==
  /\ ~live.rejected
  /\ \E i \in DOMAIN live.parts : live.parts[i].inlineData # Null

\* the store holds an entry under key that parses
Holds(store, key) == key \in DOMAIN store /\ JSONparse(store[key]).ok

\* C11: generateHistoricalIllustration tries the live call first; when it
\* fails, a response without an image payload included, the call returns the
\* image the store holds under the derived key, and it throws only when the
\* store holds none.
C11_IllustrationTwoPhase ==
  [][ (last'.settled /\ last'.fn = "generateHistoricalIllustration") =>
        LET key == last'.cacheKey
            liveWorked == apiKey /\ HasImage(last'.live)
        IN
        /\ apiKey => last'.ops[1] = "live"
        /\ liveWorked => last'.outcome = "return" /\ "read" \notin Range(last'.ops)
        /\ (~liveWorked /\ Holds(localStorage, key))
             => /\ last'.outcome = "return"
                /\ last'.value = JSONparse(localStorage[key]).v
        /\ (~liveWorked /\ ~Holds(localStorage, key)) => last'.outcome = "throw"
    ]_vars

\* a response without an image payload was answered from the cache
C11_Witness ==
  /\ last.settled
  /\ last.fn = "generateHistoricalIllustration"
  /\ apiKey
  /\ ~last.live.rejected
  /\ ~HasImage(last.live)
  /\ last.outcome = "return"
  /\ last.value = JStr(DataUrlHead \o <<"B", "B">>)

\* what the live response of a settled call carries
LiveValue(call) ==
  IF call.fn = "generateHistoricalIllustration"
  THEN LET i == CHOOSE i \in DOMAIN call.live.parts :
                  /\ call.live.parts[i].inlineData # Null
                  /\ \A j \in 1..(i - 1) : call.live.parts[j].inlineData = Null
       IN JStr(DataUrlHead \o call.live.parts[i].inlineData)
  ELSE JSONparse(call.live.text).v

\* C12: saveToCache and getFromCache hand no error to the call: when the
\* write of a live result cannot persist, the store stays as it was and the
\* call still returns the live result; when the live request fails and the
\* entry under the key does not parse, the entry counts as a miss: the call
\* reads it once, leaves it alone and rethrows the live error.
C12_StoreErrorsAreSwallowed ==
  [][ last'.settled =>
        /\ (last'.liveOk /\ ~last'.persisted)
             => /\ localStorage' = localStorage
                /\ last'.outcome = "return"
                /\ last'.value = LiveValue(last')
        /\ ( /\ ~last'.liveOk
             /\ last'.cacheKey \in DOMAIN localStorage
             /\ ~JSONparse(localStorage[last'.cacheKey]).ok )
             => /\ localStorage' = localStorage
                /\ last'.outcome = "throw"
                /\ last'.value = Null
    ]_vars

\* a write hit the quota: the older entry is still the one stored, and the
\* call returned the newer live result
C12_Witness ==
  /\ last.settled
  /\ last.liveOk
  /\ ~last.persisted
  /\ last.outcome = "return"
  /\ Holds(localStorage, last.cacheKey)
  /\ JSONparse(localStorage[last.cacheKey]).v # last.value

\* the keys of each category, for every identifier of the model
EraKeys == {eraCacheKey(e) : e \in EraId}
SearchKeys == {searchCacheKey(q) : q \in Queries \cup CacheQueries \cup EraId}
ImageKeys == {imageCacheKey(p) : p \in Prompts}

\* the keys that belong to the categories other than the one fn writes
KeysOfOthers(fn) ==
  IF fn = "generateHistoryArticle" THEN SearchKeys \cup ImageKeys
  ELSE IF fn = "generateSearchArticle" THEN EraKeys \cup ImageKeys
  ELSE EraKeys \cup SearchKeys

\* C13: a call of one category (era, search, image) leaves every key of the
\* other two categories, and the feedback key, as it was: present or absent
\* as before and holding the same text.
C13_CategoriesDoNotInterfere ==
  [][ last'.settled =>
        \A key \in KeysOfOthers(last'.fn) \cup {FEEDBACK_KEY} :
          /\ (key \in DOMAIN localStorage') = (key \in DOMAIN localStorage)
          /\ key \in DOMAIN localStorage => localStorage'[key] = localStorage[key]
    ]_vars

\* the era intro and the query "intro" each wrote an entry, the two entries
\* differ, and the feedback of the earlier visit is still there
C13_Witness ==
  /\ eraCacheKey(INTRO) \in DOMAIN writer
  /\ searchCacheKey(INTRO) \in DOMAIN writer
  /\ localStorage[eraCacheKey(INTRO)] # localStorage[searchCacheKey(INTRO)]
  /\ FEEDBACK_KEY \in DOMAIN localStorage

\* the live request of a settled call was made and gave a usable result
LiveWorked(call) ==
  /\ apiKey
  /\ ~call.live.rejected
  /\ IF call.fn = "generateHistoricalIllustration" THEN HasImage(call.live)
     ELSE call.live.text # <<>> /\ JSONparse(call.live.text).ok

\* the number of requests of one kind among ops
Count(ops, kind) == Cardinality({i \in DOMAIN ops : ops[i] = kind})

\* C20 as stated: every call makes exactly one live request; it reads the
\* cache at most once and only after the live request failed, writes it at
\* most once and only after the live request succeeded, and returns the live
\* result whenever the live request succeeded.
C20_OneLiveCallPerInvocation ==
  last.settled =>
    /\ Count(last.ops, "live") = 1
    /\ last.ops[1] = "live"
    /\ Count(last.ops, "read") = (IF LiveWorked(last) THEN 0 ELSE 1)
    /\ Count(last.ops, "write") = (IF LiveWorked(last) THEN 1 ELSE 0)
    /\ LiveWorked(last) => last.outcome = "return" /\ last.value = LiveValue(last)

\* C20 amended: a call makes one live request when the credential is set and
\* none when it is missing, and never a second one; it reads the cache once
\* exactly when the attempt failed (the live request failed or the credential
\* is missing) and after it, writes it once exactly when the live request
\* succeeded, and then returns the live result whatever the cache holds.
C20_AtMostOneLiveCallPerInvocation ==
  last.settled =>
    /\ last.ops = (IF apiKey THEN <<"live">> ELSE <<>>)
                    \o (IF LiveWorked(last) THEN <<"write">> ELSE <<"read">>)
    /\ LiveWorked(last) => last.outcome = "return" /\ last.value = LiveValue(last)

\* a search call succeeded live over an entry that holds another lesson, and
\* returned the live lesson
C20_Witness ==
  /\ last.settled
  /\ last.fn = "generateSearchArticle"
  /\ last.ops = <<"live", "write">>
  /\ ~last.persisted
  /\ Holds(localStorage, last.cacheKey)
  /\ JSONparse(localStorage[last.cacheKey]).v # last.value
  /\ last.value = LiveValue(last)

\* the prompt is one ArticleRenderer makes: the fixed sentence around an
\* imagePrompt
IsViewPrompt(prompt) ==
  /\ Len(prompt) >= Len(PromptHead) + Len(PromptTail)
  /\ SubSeq(prompt, 1, Len(PromptHead)) = PromptHead
  /\ SubSeq(prompt, Len(prompt) - Len(PromptTail) + 1, Len(prompt)) = PromptTail

\* imagePrompt texts of lessons: two letters or digits, three, a space inside
ImagePrompts ==
  { <<"p","1">>, <<"p","2">>, <<"x","y">>, <<"a"," ","b">>, <<"p","1","0">>,
    <<"p","2","0">>, <<>> }

\* C25: for the prompts ArticleRenderer makes, the key of the image cache
\* depends on the length of the prompt alone, the first 50 characters being
\* inside the fixed sentence: two lessons whose imagePrompt texts have the
\* same length get the same key.
C25_ImageKeyDependsOnLengthOnly ==
  (last.settled /\ last.fn = "generateHistoricalIllustration"
     /\ IsViewPrompt(last.arg)) =>
    \A ip \in ImagePrompts :
      (Len(fullPrompt(ip)) = Len(last.arg))
        <=> (imageCacheKey(fullPrompt(ip)) = last.cacheKey)

\* the illustration call of one lesson failed live and returned the image
\* that the call of another lesson wrote
C25_Witness ==
  /\ last.settled
  /\ last.fn = "generateHistoricalIllustration"
  /\ IsViewPrompt(last.arg)
  /\ ~last.liveOk
  /\ last.outcome = "return"
  /\ last.cacheKey \in DOMAIN writer
  /\ writer[last.cacheKey][2] # last.arg
  /\ IsViewPrompt(writer[last.cacheKey][2])

(***************************************************************************)
(* Properties of the selection handlers (Spec).                            *)
(***************************************************************************)
\* the latest step was a selection by the user
JustSelected == ~last.settled /\ "selected" \in DOMAIN last

\* the selection left the controller loading, with one call more issued
FetchStarted == loading /\ issued = last.before + 1

\* C18: every selection by the user (era, search, related topic) leaves the
\* controller loading and issues exactly one call of the service, also when
\* the era or query selected is the current one and its fetch had failed.
C18_EverySelectionFetches ==
  (JustSelected /\ apiKey) => FetchStarted

\* the part of C18 on retrying: selecting again what failed fetches again
C18_ReselectionRetries ==
  (JustSelected /\ apiKey /\ last.failed) => FetchStarted

\* the part of C18 that the effect gives: a selection that differs from the
\* current one fetches once
C18_NewSelectionFetches ==
  [][\A id \in PickedEras :
       (apiKey /\ handleSelectEra(id) /\ (id # selectedEraId \/ searchQuery # Null))
         => (loading' /\ issued' = issued + 1)]_vars

(***************************************************************************)
(* Properties of the article view (ViewSpec).                              *)
(***************************************************************************)
\* nothing is queued, spoken or paused
SpeechIdle == synth.queue = <<>> /\ ~isSpeaking /\ ~isPaused

\* C17: when the content on display changes or the article view is taken
\* down, speech is cancelled: the queue is empty and the read-aloud state is
\* not speaking and not paused; what is queued while a lesson is shown reads
\* that lesson.
C17_SpeechEndsWithTheLesson ==
  /\ ~ArticleShown => SpeechIdle
  /\ ArticleShown =>
       \A i \in DOMAIN synth.queue : synth.queue[i].lesson = Field(content, "title")

\* a selection took the view down while utterances were queued
C17_Witness ==
  /\ JustSelected
  /\ last.spoke
  /\ ~ArticleShown
  /\ SpeechIdle

\* the latest step settled the illustration call of the view on screen, and
\* the call failed
IllustrationFailed(call) ==
  /\ call.settled
  /\ call.fn = "generateHistoricalIllustration"
  /\ call.view
  /\ call.outcome = "throw"

\* C19: when the illustration call fails for the lesson on display, the image
\* area shows the placeholder (imageError set, loadingImage cleared, the
\* description in place of the image), the lesson stays rendered, and
\* content, error and loading of the controller are as before.
C19_IllustrationFailureShowsPlaceholder ==
  [][IllustrationFailed(last') =>
       /\ imageError'
       /\ ~loadingImage'
       /\ ImageArea' = "placeholder"
       /\ ArticleShown'
       /\ UNCHANGED <<content, error, loading>>]_vars

C19_Witness ==
  /\ IllustrationFailed(last)
  /\ imageError
  /\ ImageArea = "placeholder"
  /\ ArticleShown

\* C24: in the read-aloud controls paused implies speaking: isPaused is never
\* true while isSpeaking is false, whatever Speak, Pause and Stop clicks,
\* utterance ends and errors, and changes of the content came before.
C24_PausedImpliesSpeaking == isPaused => isSpeaking

\* the speech of the lesson on display is paused
C24_Witness ==
  /\ ArticleShown
  /\ isPaused
  /\ isSpeaking
  /\ synth.paused
  /\ synth.queue # <<>>

(***************************************************************************)
(* Properties of renderRichText (ScanSpec, DateSpec).                      *)
(***************************************************************************)
\* the pieces are brackets in pairs, none inside another: inside tells whether
\* an opening bracket waits for its closing one
RECURSIVE WellBracketed(_, _)
WellBracketed(ts, inside) ==
  IF ts = <<>> THEN ~inside
  ELSE IF Head(ts) = Open THEN ~inside /\ WellBracketed(Tail(ts), TRUE)
  ELSE IF Head(ts) = Close THEN inside /\ WellBracketed(Tail(ts), FALSE)
  ELSE WellBracketed(Tail(ts), inside)

\* the terms of well-bracketed pieces, in order: term is the text since the
\* opening bracket
RECURSIVE TermsOf(_, _)
TermsOf(ts, term) ==
  IF ts = <<>> THEN <<>>
  ELSE IF Head(ts) = Open THEN TermsOf(Tail(ts), <<>>)
  ELSE IF Head(ts) = Close THEN <<term>> \o TermsOf(Tail(ts), <<>>)
  ELSE TermsOf(Tail(ts), term \o Head(ts))

\* the text of the pieces without the brackets
Unbracketed(ts) == Flatten(SelectSeq(ts, LAMBDA t : t # Open /\ t # Close))

\* the terms of the glossary buttons among the spans, in order
RefsOf(ss) == LET refs == SelectSeq(ss, LAMBDA sp : sp[1] = "ref") IN
              [i \in DOMAIN refs |-> refs[i][2]]

\* the texts of the spans, one after the other
TextOf(ss) == Flatten([i \in DOMAIN ss |-> ss[i][2]])

\* the scanner gave every term its glossary button and kept the text
TermsScanned ==
  /\ RefsOf(spans) = TermsOf(tokens, <<>>)
  /\ TextOf(spans) = Unbracketed(tokens)

\* C14: for a text with N bracketed terms, none overlapping another, the
\* scanner gives exactly N glossary references, in the order of the terms,
\* and the texts of all spans, one after the other, are the text without the
\* brackets.
C14_EveryTermBecomesAReference ==
  (spans # NotScanned /\ WellBracketed(tokens, FALSE)) => TermsScanned

\* a term holds a line terminator
RECURSIVE BrokenTerm(_, _)
BrokenTerm(ts, inside) ==
  IF ts = <<>> THEN FALSE
  ELSE IF Head(ts) = Open THEN BrokenTerm(Tail(ts), TRUE)
  ELSE IF Head(ts) = Close THEN BrokenTerm(Tail(ts), FALSE)
  ELSE (inside /\ \E i \in DOMAIN Head(ts) : Head(ts)[i] \in LineTerminators)
       \/ BrokenTerm(Tail(ts), inside)

\* the same for the texts whose terms hold no line terminator
C14_TermsOnOneLine ==
  (spans # NotScanned /\ WellBracketed(tokens, FALSE) /\ ~BrokenTerm(tokens, FALSE))
    => TermsScanned

\* the number a decimal numeral stands for
RECURSIVE ValueOf(_)
ValueOf(digits) ==
  IF digits = <<>> THEN 0
  ELSE 10 * ValueOf(SubSeq(digits, 1, Len(digits) - 1))
         + (CHOOSE d \in 0..9 : DigitSeq[d + 1] = digits[Len(digits)])

FirstYear == 400

LastYear == 2029

\* the number of the paragraph stands alone: text before it ends in a space,
\* text after it (behind the suffix) starts with one
Standalone == tokens[4] \in { <<>>, <<" ", "x">> }

DatesOf(ss) == SelectSeq(ss, LAMBDA sp : sp[1] = "date")

C16_NoEmptyPlainSpan ==
  spans # NotScanned =>
    /\ \A i \in DOMAIN spans : spans[i] # <<"plain", <<>>>>
    /\ (Flatten(tokens) = <<>> => spans = <<>>)

\* the spans are in the order of the text
C16_SpansInTextOrder ==
  (spans # NotScanned /\ ~(\E i \in DOMAIN tokens : tokens[i] \in {Open, Close}))
    => TextOf(spans) = Flatten(tokens)

(***************************************************************************)
(* Properties of the lesson controller (Spec).                             *)
(***************************************************************************)
\* C3: when the call that settles is not the one issued for the current
\* selection, content, error and loading stay as they are; the result of the
\* call issued for the current selection is what gets applied.
C3_SupersededResultIsDropped ==
  [][ last'.settled =>
        IF last'.id # issued
        THEN UNCHANGED <<content, error, loading>>
        ELSE /\ ~loading'
             /\ last'.outcome = "return" => content' = last'.value
             /\ last'.outcome = "throw" => error' # Null /\ content' = content
    ]_vars

\* the result for an earlier selection arrived after the lesson for the
\* current selection was shown, and the shown lesson is still the current one
C3_Witness ==
  /\ last.settled
  /\ last.id < issued
  /\ last.outcome = "return"
  /\ ArticleShown
  /\ content # last.value

\* C4: without the credential, once the App has mounted, the missing-key
\* error is what the user sees, and no service call was made: no call in
\* flight, none settled, no cache entry read or written.
C4_MissingCredentialStopsEverySelection ==
  (~apiKey /\ mounted) =>
    /\ error = ErrorText(MissingKeyText)
    /\ ~loading
    /\ content = Null
    /\ issued = 0
    /\ \A i \in DOMAIN fetches : FALSE
    /\ DOMAIN localStorage = {}
    /\ ~last.settled

\* without the credential a search was submitted and the error is shown
C4_Witness ==
  /\ ~apiKey
  /\ mounted
  /\ TruthyString(searchQuery)
  /\ selectedEraId = Null
  /\ error = ErrorText(MissingKeyText)

\* C5: exactly one of the era selection and the search query is set, and the
\* call issued for the selection is the one for that mode: the search call
\* with the query when the query is set, else the era call with the era.
C5_FetchMatchesActiveSelection ==
  mounted =>
    /\ (selectedEraId = Null) # (searchQuery = Null)
    /\ (issued \in DOMAIN fetches) =>
         IF searchQuery # Null
         THEN /\ fetches[issued].fn = "generateSearchArticle"
              /\ fetches[issued].arg = searchQuery
         ELSE /\ fetches[issued].fn = "generateHistoryArticle"
              /\ fetches[issued].arg = selectedEraId

\* C6: while a new call is in flight and a lesson is held, the lesson is
\* still rendered, under the loading overlay.
C6_LessonStaysRenderedWhileLoading ==
  (loading /\ IsLesson(content)) => (OverlayShown /\ ArticleShown)

\* the call that settled was issued for an earlier selection
Superseded(call) == call.settled /\ call.id # issued

\* C21: a fetch superseded by a newer selection is not cancelled: when its
\* live call succeeds afterwards, the service still writes the lesson to the
\* cache under the call's own key (the store holds it unless the write hit the
\* quota), while content, error and loading stay as they are.
C21_SupersededFetchStillWrites ==
  [][ (Superseded(last') /\ last'.liveOk) =>
        /\ last'.ops = <<"live", "write">>
        /\ last'.cacheKey = cacheKeyOf(last'.fn, last'.arg)
        /\ IF last'.persisted
           THEN /\ getFromCache(localStorage', last'.cacheKey) = last'.value
                /\ \A k \in DOMAIN localStorage :
                     k # last'.cacheKey => localStorage'[k] = localStorage[k]
           ELSE localStorage' = localStorage
        /\ UNCHANGED <<content, error, loading>>
    ]_vars

\* the lesson of a superseded fetch is in the store and not on display
C21_Witness ==
  /\ Superseded(last)
  /\ last.liveOk
  /\ last.persisted
  /\ getFromCache(localStorage, last.cacheKey) = last.value
  /\ content # last.value
  /\ loading

\* the fetch issued for the current selection has not settled yet
CurrentFetchPending == issued \in DOMAIN fetches /\ fetches[issued].isMounted

\* C22: with the credential, loading is true exactly while the fetch issued
\* for the current selection is unresolved: a superseded fetch that settles,
\* with a lesson or with a failure, does not clear it, and the current one
\* that settles always clears it.
C22_LoadingWhileCurrentFetchPending ==
  apiKey => (loading <=> CurrentFetchPending)

\* a superseded fetch has failed and the controller is still loading
C22_Witness ==
  /\ Superseded(last)
  /\ last.outcome = "throw"
  /\ loading
  /\ CurrentFetchPending

(***************************************************************************)
(* Properties of the lesson controller under fairness (LiveSpec).          *)
(***************************************************************************)
\* the controller is at rest: not loading, and an error or a lesson on screen
AtRest == ~loading /\ (error # Null \/ (ArticleShown /\ IsLesson(content)))

\* the lesson on screen is put there by the fetch of the current selection,
\* and by nothing else
LessonIsOfCurrentFetch ==
  /\ (last'.settled /\ last'.id = issued /\ last'.outcome = "return")
       => (content' = last'.value /\ ~loading')
  /\ ~(last'.settled /\ last'.id = issued /\ last'.outcome = "return")
       => content' = content

\* C23: when every call issued settles at some time and the user stops
\* changing the selection, the controller leaves Loading for good and stays
\* with an error or with the lesson fetched for the last selection on screen.
C23_ControllerComesToRest ==
  /\ [][LessonIsOfCurrentFetch]_vars
  /\ <>[]AtRest

\* the part of C23 on Loading alone: the controller leaves it for good
C23_LeavesLoading == <>[](~loading)

=============================================================================
